---- MODULE Spec2Model ----
(***************************************************************************)
(* Model of github.com/brunotm/rxde: the parser constructor New, the two   *)
(* scan loops parse (combined pattern, one Result per line) and parseSet   *)
(* (start-delimited documents), Rule.Parse and appendJSON.                 *)
(*                                                                         *)
(* A byte string is a sequence of one-character strings.  A compiled       *)
(* pattern is represented by its pattern text; a line of input carries the *)
(* set of boundary patterns that match it and, for every rule pattern, the *)
(* text of its capture group on that line.                                 *)
(***************************************************************************)
EXTENDS Naturals, Sequences, FiniteSets

VARIABLES
    config,   \* the Config handed to New
    p,        \* the Parser New returned (fields of struct Parser), or NoParser
    err,      \* the error New returned
    pc,       \* "new", "ready", "scan", "done"
    fn,       \* which scan loop ParseWith dispatched to: "none", "parse", "parseSet"
    skip,     \* local skip of the running scan loop
    result,   \* local result of the running scan loop
    lines,    \* the tokens the scan loop has taken from scanner.Bytes() so far
    scanErr,  \* what scanner.Err() holds
    calls,    \* the invocations of the Processor callback, in order
    parsed,   \* <<line number, rule index>> for every Rule.Parse call made on a line
    exit,     \* how the scan loop was left
    offer,    \* Parse: the send the goroutine is blocked on in its select, or NoOffer
    recv,     \* Parse: the Results received from the channel, in order
    closed,   \* Parse: how many times close(res) has run
    ctx,      \* Parse: "live", or "done" once the context is cancelled
    cons,     \* Parse: "ready" while the caller receives from the channel, else "gone"
    scans,    \* the local state and input of each of several scans of one Parser
    dsRule,   \* a Rule of type datasize: its From and To
    dsText,   \* the text handed to parseDataSize
    dsValue,  \* what parseDataSize returned
    jsonBuf,  \* the buffer a chain of appendJSON calls builds
    jsonPairs \* the key and value of each of those calls, in order

\* what only Parse, concurrent scans and parseDataSize use
json == <<jsonBuf, jsonPairs>>
aux == <<offer, recv, closed, ctx, cons, scans, dsRule, dsText, dsValue, json>>

vars == <<config, p, err, pc, fn, skip, result, lines, scanErr, calls, parsed, exit,
          aux>>

(***************************************************************************)
(* Bounds                                                                  *)
(***************************************************************************)
MaxLines == 3

(***************************************************************************)
(* Patterns and texts                                                      *)
(***************************************************************************)
NIL == "nil"
BadPat == "("
NoMatch == "nomatch"

\* rule patterns: ra and rb have one capture group, r0 has none
RuleRx == {"ra", "rb", "r0"}

NumSubexp(rx) ==
    CASE rx = "r0" -> 0
      [] rx = "rx2" -> 2
      [] OTHER -> 1

noCaps == [rx \in RuleRx |-> NoMatch]
noSubs == [rx \in {"rx1", "rx2"} |-> <<>>]

\* a piece of text with no pattern information of its own (a capture group)
Text(s) == [s |-> s, m |-> {}, caps |-> noCaps, subs |-> noSubs]

Chars(s) ==
    CASE s = "" -> <<>>
      [] s = "1" -> <<"1">>
      [] s = "2" -> <<"2">>
      [] s = "x" -> <<"x">>

IsDigits(s) == s \in {"1", "2"}

\* an error value; NoErr is Go's nil error
Err(kind) == [kind |-> kind, rule |-> <<>>, input |-> ""]
NoErr == Err("nil")
\* fmt.Errorf("rule %s, input: %s, error: %s", name, s, err)
RuleErr(name, s) == [kind |-> "rule", rule |-> name, input |-> s]

regexpCompile(expr) == IF expr = BadPat THEN [re |-> NIL, err |-> Err("syntax")]
                       ELSE [re |-> expr, err |-> NoErr]

Match(re, line) == re \in line.m

\* bytes.Index(data, sep) > -1
Contains(data, sep) ==
    \E i \in 0..Len(data) :
        /\ i + Len(sep) <= Len(data)
        /\ SubSeq(data, i + 1, i + Len(sep)) = sep

(***************************************************************************)
(* appendJSON                                                              *)
(***************************************************************************)
\* an appender that writes the comma before the first pair as well
appendJSONCommaFirst(data, key, value) ==
    LET d0  == IF Len(data) = 0 THEN <<"{", "}">> ELSE data
        dsz == Len(d0)
    IN SubSeq(d0, 1, dsz - 1) \o <<",", "\"">> \o key \o <<"\"", ":">> \o value
          \o SubSeq(d0, dsz, dsz)

appendJSON(data, key, value) ==
    LET d0  == IF Len(data) = 0 THEN <<"{", "}">> ELSE data
        dsz == Len(d0)
        buf == (IF dsz > 2 THEN <<",">> ELSE <<>>)
               \o <<"\"">> \o key \o <<"\"", ":">> \o value
    IN SubSeq(d0, 1, dsz - 1) \o buf \o SubSeq(d0, dsz, dsz)

(***************************************************************************)
(* package rule                                                            *)
(***************************************************************************)
ruleNew(rc) ==
    IF rc.Regex # "" /\ regexpCompile(rc.Regex).err # NoErr THEN Err("syntax")
    ELSE IF rc.Regex # "" /\ NumSubexp(rc.Regex) # 1 THEN Err("errInvalidMatchNum")
    ELSE IF rc.Name = <<>> THEN Err("errNoRuleName")
    ELSE IF rc.Type = "" THEN Err("errInvalidType")
    ELSE NoErr

jsonString(s) == <<"\"">> \o Chars(s) \o <<"\"">>

\* Rule.Parse: [value, matched, err]
RuleParse(rc, text) ==
    LET s == IF rc.Regex # "" THEN text.caps[rc.Regex] ELSE text.s IN
    IF s = NoMatch THEN [value |-> <<>>, matched |-> FALSE, err |-> NoErr]
    ELSE IF s = "" THEN [value |-> <<>>, matched |-> TRUE, err |-> NoErr]
    ELSE CASE rc.Type = "string" ->
                [value |-> jsonString(s), matched |-> TRUE, err |-> NoErr]
           [] rc.Type \in {"int", "uint"} ->
                IF IsDigits(s)
                THEN [value |-> Chars(s), matched |-> TRUE, err |-> NoErr]
                ELSE [value |-> <<"0">>, matched |-> TRUE,
                      err |-> RuleErr(rc.Name, s)]
           [] OTHER ->
                [value |-> <<>>, matched |-> TRUE, err |-> RuleErr(rc.Name, s)]

(***************************************************************************)
(* New                                                                     *)
(***************************************************************************)
NoParser == [startMatch |-> NIL, stopMatch |-> NIL, skipMatch |-> NIL,
             resumeMatch |-> NIL, regex |-> NIL, rules |-> <<>>]

\* the index of the first rule the loop of New rejects, 0 if none
FirstBadRule(rules) ==
    LET bad == {i \in 1..Len(rules) :
                   \/ \E j \in 1..(i - 1) : rules[j].Name = rules[i].Name
                   \/ ruleNew(rules[i]) # NoErr}
    IN IF bad = {} THEN 0 ELSE CHOOSE i \in bad : \A j \in bad : i <= j

RuleLoopErr(rules) ==
    LET i == FirstBadRule(rules) IN
    IF i = 0 THEN NoErr
    ELSE IF \E j \in 1..(i - 1) : rules[j].Name = rules[i].Name
         THEN Err("errRepeatedRuleName")
         ELSE ruleNew(rules[i])

\* the pattern New stores in p.stopMatch: StopMatch, then ResumeMatch, then
\* Regex are compiled into the same field, the last non-empty one staying
StopField(c) ==
    IF c.Regex # "" THEN c.Regex
    ELSE IF c.ResumeMatch # "" THEN c.ResumeMatch
    ELSE IF c.StopMatch # "" THEN c.StopMatch
    ELSE NIL

\* p.resumeMatch and p.regex are assigned nowhere in New
ResumeField(c) == NIL
RegexField(c) == NIL

CompileErr(c) ==
    \E f \in {c.StartMatch, c.StopMatch, c.SkipMatch, c.ResumeMatch, c.Regex} :
        f # "" /\ regexpCompile(f).err # NoErr

New(c) ==
    LET q == [startMatch  |-> IF c.StartMatch # "" THEN c.StartMatch ELSE NIL,
              stopMatch   |-> StopField(c),
              skipMatch   |-> IF c.SkipMatch # "" THEN c.SkipMatch ELSE NIL,
              resumeMatch |-> ResumeField(c),
              regex       |-> RegexField(c),
              rules       |-> c.Rules]
    IN IF CompileErr(c) THEN [p |-> NoParser, err |-> Err("syntax")]
       ELSE IF Len(c.Rules) = 0 THEN [p |-> NoParser, err |-> Err("errEmptyRules")]
       ELSE IF RuleLoopErr(c.Rules) # NoErr
            THEN [p |-> NoParser, err |-> RuleLoopErr(c.Rules)]
       ELSE IF q.regex = NIL /\ q.startMatch = NIL
            THEN [p |-> NoParser, err |-> Err("errNilStartRegex")]
       ELSE [p |-> q, err |-> NoErr]

(***************************************************************************)
(* The inputs: configurations and lines                                    *)
(***************************************************************************)
RA      == [Name |-> <<"a">>, Type |-> "int", Regex |-> "ra"]
RB      == [Name |-> <<"a", "b">>, Type |-> "string", Regex |-> "rb"]
RNoName == [Name |-> <<>>, Type |-> "int", Regex |-> "ra"]
RNoType == [Name |-> <<"a">>, Type |-> "", Regex |-> "ra"]
RBadRx  == [Name |-> <<"a">>, Type |-> "int", Regex |-> BadPat]
RZero   == [Name |-> <<"a">>, Type |-> "int", Regex |-> "r0"]

\* rules without a pattern of their own, as used with a combined pattern
RAp     == [Name |-> <<"a">>, Type |-> "int", Regex |-> ""]
RBp     == [Name |-> <<"a", "b">>, Type |-> "string", Regex |-> ""]

RuleLists == {<<>>, <<RA>>, <<RA, RB>>, <<RA, RA>>, <<RA, RNoName>>,
              <<RNoType>>, <<RBadRx>>, <<RZero>>}

\* FindAll concerns the combined pattern only and is drawn with it
Configs == {c \in [FindAll     : BOOLEAN,
                   StartMatch  : {"", "start", BadPat},
                   StopMatch   : {"", "stop"},
                   SkipMatch   : {"", "skip"},
                   ResumeMatch : {"", "resume"},
                   Regex       : {"", "rx1"},
                   Rules       : RuleLists] : c.FindAll => c.Regex # ""}

Line(s, m, ca, cb, occ) ==
    [s |-> s, m |-> m,
     caps |-> [rx \in RuleRx |-> CASE rx = "ra" -> ca [] rx = "rb" -> cb
                                   [] OTHER -> NoMatch],
     subs |-> [rx \in {"rx1", "rx2"} |-> IF rx \in m THEN occ[rx] ELSE <<>>]]

\* the occurrences of the combined patterns on a line that matches them, each
\* the texts of its capture groups
occ1 == [rx \in {"rx1", "rx2"} |->
            IF rx = "rx1" THEN << <<Text("1")>>, <<Text("x")>> >>
            ELSE << <<Text("1"), Text("x")>> >>]
occ2 == [rx \in {"rx1", "rx2"} |->
            IF rx = "rx1" THEN << <<Text("x")>> >>
            ELSE << <<Text("2"), Text("")>>, <<Text("1"), Text("1")>> >>]

Lines == {Line("", {}, NoMatch, NoMatch, occ1),
          Line("x", {"start"}, NoMatch, NoMatch, occ1),
          Line("x", {"start"}, "1", NoMatch, occ1),
          Line("x", {}, "2", NoMatch, occ1),
          Line("x", {}, NoMatch, "x", occ1),
          Line("x", {}, "x", NoMatch, occ1),
          Line("x", {}, "", NoMatch, occ1),
          Line("x", {"stop"}, "1", NoMatch, occ1),
          Line("x", {"skip"}, "1", NoMatch, occ1),
          Line("x", {"resume"}, "2", NoMatch, occ1),
          Line("x", {"skip", "resume"}, "1", NoMatch, occ1),
          Line("x", {"rx1"}, "1", NoMatch, occ1)}

\* the lines fed to a parser that has a combined pattern
LinesA == {Line("", {}, NoMatch, NoMatch, occ1),
           Line("x", {}, "1", NoMatch, occ1),
           Line("x", {"stop"}, "1", NoMatch, occ1),
           Line("x", {"skip", "rx1", "rx2"}, "1", NoMatch, occ1),
           Line("x", {"resume", "rx1", "rx2"}, "1", NoMatch, occ2),
           Line("x", {"rx1", "rx2"}, NoMatch, NoMatch, occ1),
           Line("x", {"rx1", "rx2"}, "1", NoMatch, occ2)}

(***************************************************************************)
(* The scan loops                                                          *)
(***************************************************************************)
EmptyResult == [Data |-> <<>>, Errors |-> <<>>]

\* one invocation of the Processor: the Result passed, what it returned, the
\* number of lines read when it was called and the call site
Call(r, ok, n, site) == [r |-> r, ok |-> ok, line |-> n, site |-> site]

\* p.stopMatch != nil && p.stopMatch.Match(line)
StopHit(q, line) == q.stopMatch # NIL /\ Match(q.stopMatch, line)

\* p.skipMatch != nil && p.resumeMatch != nil
SkipActive(q) == q.skipMatch # NIL /\ q.resumeMatch # NIL

\* the skip flag after the skip test and then the resume test on the line
NextSkip(q, line, sk) ==
    IF Match(q.resumeMatch, line) THEN FALSE
    ELSE IF Match(q.skipMatch, line) THEN TRUE
    ELSE sk

\* a delivery test that looks at the data only
PendingData(res) == res.Data # <<>>

\* result.Data != nil || result.Errors != nil
Pending(res) == res.Data # <<>> \/ res.Errors # <<>>

\* a rule loop without the test for a field already written
FieldSeenNever(data, name) == FALSE

\* bytes.Index(result.Data, []byte(name)) > -1
FieldSeen(data, name) == Contains(data, name)

\* a loop that ignores what the callback returns
GoesOnAlways(ok) == TRUE

\* if !cb(result) { return }: whether the loop goes on after the callback
GoesOn(ok) == ok

\* the rule loop of parseSet on one line, from rule r on
RECURSIVE SetRules(_, _, _, _)
SetRules(rules, r, line, acc) ==
    IF r > Len(rules) THEN acc
    ELSE IF FieldSeen(acc.res.Data, rules[r].Name)
         THEN SetRules(rules, r + 1, line, acc)
    ELSE LET o == RuleParse(rules[r], line)
             res1 == IF o.err # NoErr
                     THEN [acc.res EXCEPT !.Errors = Append(@, o.err)]
                     ELSE IF o.matched
                          THEN [acc.res EXCEPT
                                   !.Data = appendJSON(@, rules[r].Name, o.value)]
                          ELSE acc.res
         IN SetRules(rules, r + 1, line,
                     [res |-> res1, tried |-> acc.tried \cup {r}])

\* the callback invocations after the delivery that follows the loop of parseSet
SetFinal(res, cs, n, ok) ==
    IF Pending(res) THEN Append(cs, Call(res, ok, n, "final")) ELSE cs

\* a stop check that returns instead of breaking out of the loop
SetBreakReturns(res, cs, n, ok) == cs

\* what leaving the loop of parseSet by break leads to
SetBreak(res, cs, n, ok) == SetFinal(res, cs, n, ok)

\* the local state of one scan: where the loop stands, the skip flag, the
\* pending Result, and what the scan has done so far
Frame == [pc |-> pc, skip |-> skip, result |-> result, calls |-> calls,
          parsed |-> parsed, exit |-> exit]

\* one iteration of the loop of parseSet of parser q, on the n-th token, read
\* without error, from the local state st; ok is what the callback returns
parseSetIter(q, st, n, line, ok) ==
    LET keep == [st EXCEPT !.pc = "scan"] IN
    IF line.s = "" THEN keep
    ELSE IF StopHit(q, line)
         THEN [keep EXCEPT !.pc = "done", !.exit = "stop",
                           !.calls = SetBreak(st.result, st.calls, n, ok)]
    ELSE LET sk == IF SkipActive(q) THEN NextSkip(q, line, st.skip) ELSE st.skip IN
         IF SkipActive(q) /\ sk THEN [keep EXCEPT !.skip = sk]
         ELSE LET start == Match(q.startMatch, line)
                  flush == start /\ Pending(st.result)
                  cs    == IF flush
                           THEN Append(st.calls, Call(st.result, ok, n, "flush"))
                           ELSE st.calls
                  out   == SetRules(q.rules, 1, line,
                                    [res   |-> IF start THEN EmptyResult
                                               ELSE st.result,
                                     tried |-> {}])
              IN IF flush /\ ~GoesOn(ok)
                 THEN [keep EXCEPT !.skip = sk, !.pc = "done", !.exit = "cb",
                                   !.calls = cs]
                 ELSE [keep EXCEPT !.skip = sk, !.result = out.res, !.calls = cs,
                                   !.parsed = @ \cup {<<n, r>> : r \in out.tried}]

\* one iteration of the loop of parseSet on a token read without error
parseSetBody(line, ok) == parseSetIter(p, Frame, Len(lines) + 1, line, ok)

\* p.regex.FindSubmatch(line): nil, or the whole match followed by the groups
\* of the leftmost occurrence
NilMatch == <<>>
FindSubmatch(re, line) ==
    IF line.subs[re] = <<>> THEN NilMatch
    ELSE <<Text(line.s)>> \o line.subs[re][1]

\* a find-all that returns the leftmost occurrence only
handleFirstSubmatch(re, line) == FindSubmatch(re, line)

\* handleAllSubmatch: nil, or a nil entry followed by the first group of every
\* occurrence (the combined patterns of the model all have a first group)
handleAllSubmatch(re, line) ==
    LET subs == line.subs[re] IN
    IF Len(subs) = 0 THEN NilMatch
    ELSE <<Text("")>> \o [i \in 1..Len(subs) |-> subs[i][1]]

\* a capture-count test that only sees too few captures
MismatchFewer(match, rules) == Len(match) < Len(rules)

\* len(match) != len(p.rules)
Mismatch(match, rules) == Len(match) # Len(rules)

\* the rule loop of parse over the captures, from rule r on
RECURSIVE LineRules(_, _, _, _)
LineRules(rules, r, match, res) ==
    IF r > Len(rules) THEN res
    ELSE LET o  == RuleParse(rules[r], match[r])
             e1 == IF o.err # NoErr THEN Append(res.Errors, o.err) ELSE res.Errors
         IN LineRules(rules, r + 1, match,
                      [Data   |-> appendJSON(res.Data, rules[r].Name, o.value),
                       Errors |-> e1])

\* one iteration of the loop of parse of parser q with FindAll as given, on
\* the n-th token, read without error, from the local state st
parseIter(q, findAll, st, n, line, ok) ==
    LET keep == [st EXCEPT !.pc = "scan"] IN
    IF StopHit(q, line) THEN [keep EXCEPT !.pc = "done", !.exit = "stop"]
    ELSE LET sk == IF SkipActive(q) THEN NextSkip(q, line, st.skip) ELSE st.skip IN
         IF SkipActive(q) /\ sk THEN [keep EXCEPT !.skip = sk]
         ELSE LET m0 == IF findAll THEN handleAllSubmatch(q.regex, line)
                        ELSE FindSubmatch(q.regex, line)
              IN IF m0 = NilMatch THEN [keep EXCEPT !.skip = sk]
                 ELSE LET match == Tail(m0)
                          bad   == Mismatch(match, q.rules)
                          res   == IF bad
                                   THEN [Data   |-> <<>>,
                                         Errors |-> <<Err("errInvalidParsersNumber")>>]
                                   ELSE LineRules(q.rules, 1, match, EmptyResult)
                          site  == IF bad THEN "mismatch" ELSE "line"
                      IN [keep EXCEPT
                            !.skip = sk,
                            !.result = res,
                            !.calls = Append(st.calls, Call(res, ok, n, site)),
                            !.parsed = IF bad THEN @
                                       ELSE @ \cup {<<n, r>> : r \in 1..Len(q.rules)},
                            !.pc = IF GoesOn(ok) THEN "scan" ELSE "done",
                            !.exit = IF GoesOn(ok) THEN st.exit ELSE "cb"]

\* one iteration of the loop of parse on a token read without error
parseBody(line, ok) == parseIter(p, config.FindAll, Frame, Len(lines) + 1, line, ok)

\* the body of either loop when scanner.Err() is not nil, on the n-th token
ScanErrIter(st, n, ok) ==
    LET r == [Data |-> <<>>, Errors |-> <<Err("read")>>] IN
    [st EXCEPT !.pc = "done", !.result = r,
               !.calls = Append(st.calls, Call(r, ok, n, "ioerr")),
               !.exit = "ioerr"]

\* the body of either loop when scanner.Err() is not nil
ScanErrBody(ok) == ScanErrIter(Frame, Len(lines) + 1, ok)

\* parseSet after scanner.Scan() has returned false
SetEndIter(st, n, ok, how) ==
    [st EXCEPT !.pc = "done", !.calls = SetFinal(st.result, st.calls, n, ok),
               !.exit = how]

\* parse after scanner.Scan() has returned false
EndIter(st, how) == [st EXCEPT !.pc = "done", !.exit = how]

Set(next) ==
    /\ pc' = next.pc
    /\ skip' = next.skip
    /\ result' = next.result
    /\ calls' = next.calls
    /\ parsed' = next.parsed
    /\ exit' = next.exit

(***************************************************************************)
(* Actions                                                                 *)
(***************************************************************************)
NoOffer == [kind |-> "none"]
NoValue == [called |-> FALSE, value |-> [num |-> 0, den |-> 0], err |-> NoErr]

\* no Parse call, no concurrent scan and no datasize conversion under way
AuxInit ==
    /\ offer = NoOffer
    /\ recv = <<>>
    /\ closed = 0
    /\ ctx = "live"
    /\ cons = "ready"
    /\ scans = <<>>
    /\ dsRule = [From |-> "", To |-> ""]
    /\ dsText = [hasNum |-> FALSE, num |-> 0, unit |-> ""]
    /\ dsValue = NoValue
    /\ jsonBuf = <<>>
    /\ jsonPairs = <<>>

Init ==
    /\ config \in Configs
    /\ p = NoParser
    /\ err = NoErr
    /\ pc = "new"
    /\ fn = "none"
    /\ skip = FALSE
    /\ result = EmptyResult
    /\ lines = <<>>
    /\ scanErr = NoErr
    /\ calls = <<>>
    /\ parsed = {}
    /\ exit = "none"
    /\ AuxInit

\* New(config)
DoNew ==
    /\ pc = "new"
    /\ p' = New(config).p
    /\ err' = New(config).err
    /\ pc' = IF New(config).err = NoErr THEN "ready" ELSE "done"
    /\ UNCHANGED <<config, fn, skip, result, lines, scanErr, calls, parsed, exit>>
    /\ UNCHANGED aux

\* the loop ParseWith dispatches to
Dispatch(q) == IF q.regex = NIL THEN "parseSet" ELSE "parse"

\* p.ParseWith(data, cb) up to the first scanner.Scan()
ParseWith ==
    /\ pc = "ready"
    /\ fn' = Dispatch(p)
    /\ pc' = "scan"
    /\ skip' = FALSE
    /\ result' = EmptyResult
    /\ UNCHANGED <<config, p, err, lines, scanErr, calls, parsed, exit>>
    /\ UNCHANGED aux

\* parseSet: scanner.Scan() returns a token and scanner.Err() is nil
parseSetLine ==
    /\ pc = "scan" /\ fn = "parseSet"
    /\ Len(lines) < MaxLines
    /\ \E line \in Lines, ok \in BOOLEAN :
          /\ lines' = Append(lines, line)
          /\ Set(parseSetBody(line, ok))
    /\ UNCHANGED <<config, p, err, fn, scanErr>>
    /\ UNCHANGED aux

\* parseSet: scanner.Scan() returns the last, unterminated token of a source
\* whose Read has failed, so that scanner.Err() is set inside the loop
parseSetScanErr ==
    /\ pc = "scan" /\ fn = "parseSet"
    /\ Len(lines) < MaxLines
    /\ \E ok \in BOOLEAN : Set(ScanErrBody(ok))
    /\ scanErr' = Err("read")
    /\ UNCHANGED <<config, p, err, fn, lines>>
    /\ UNCHANGED aux

\* parseSet: scanner.Scan() returns false, at end of input or because Read
\* failed with no token left to return (or a token was too long)
parseSetEnd ==
    /\ pc = "scan" /\ fn = "parseSet"
    /\ \E e \in {NoErr, Err("read")}, ok \in BOOLEAN :
          /\ scanErr' = e
          /\ calls' = SetFinal(result, calls, Len(lines), ok)
          /\ exit' = IF e = NoErr THEN "eof" ELSE "readfail"
    /\ pc' = "done"
    /\ UNCHANGED <<config, p, err, fn, skip, result, lines, parsed>>
    /\ UNCHANGED aux

\* parse: scanner.Scan() returns a token and scanner.Err() is nil
parseLine ==
    /\ pc = "scan" /\ fn = "parse"
    /\ Len(lines) < MaxLines
    /\ \E line \in LinesA, ok \in BOOLEAN :
          /\ lines' = Append(lines, line)
          /\ Set(parseBody(line, ok))
    /\ UNCHANGED <<config, p, err, fn, scanErr>>
    /\ UNCHANGED aux

\* parse: scanner.Scan() returns the last, unterminated token of a source whose
\* Read has failed
parseScanErr ==
    /\ pc = "scan" /\ fn = "parse"
    /\ Len(lines) < MaxLines
    /\ \E ok \in BOOLEAN : Set(ScanErrBody(ok))
    /\ scanErr' = Err("read")
    /\ UNCHANGED <<config, p, err, fn, lines>>
    /\ UNCHANGED aux

\* parse: scanner.Scan() returns false, at end of input or because Read failed
\* with no token left to return
parseEnd ==
    /\ pc = "scan" /\ fn = "parse"
    /\ \E e \in {NoErr, Err("read")} :
          /\ scanErr' = e
          /\ exit' = IF e = NoErr THEN "eof" ELSE "readfail"
    /\ pc' = "done"
    /\ UNCHANGED <<config, p, err, fn, skip, result, lines, calls, parsed>>
    /\ UNCHANGED aux

Next ==
    \/ DoNew
    \/ ParseWith
    \/ parseSetLine
    \/ parseSetScanErr
    \/ parseSetEnd

Spec == Init /\ [][Next]_vars

(***************************************************************************)
(* Scans of any Parser value, whether or not New can return it: the fields *)
(* of the struct are drawn freely, under the one condition New ends with   *)
(* (a combined pattern or a start pattern is there).                       *)
(***************************************************************************)
Parsers ==
    {q \in [startMatch  : {NIL, "start"},
            stopMatch   : {NIL, "stop"},
            skipMatch   : {NIL, "skip"},
            resumeMatch : {NIL, "resume"},
            regex       : {NIL, "rx1", "rx2"},
            rules       : {<<RA, RB>>, <<RAp>>, <<RAp, RBp>>}] :
        /\ q.regex # NIL \/ q.startMatch # NIL
        /\ (q.skipMatch = NIL) = (q.resumeMatch = NIL)
        /\ (q.regex = NIL) = (q.rules = <<RA, RB>>)
        /\ q.regex # NIL => q.startMatch = NIL}

InitParser ==
    /\ p \in Parsers
    /\ config \in {c \in [FindAll : BOOLEAN, StartMatch : {""}, StopMatch : {""},
                          SkipMatch : {""}, ResumeMatch : {""}, Regex : {""},
                          Rules : {p.rules}] : c.FindAll => p.regex # NIL}
    /\ err = NoErr
    /\ pc = "ready"
    /\ fn = "none"
    /\ skip = FALSE
    /\ result = EmptyResult
    /\ lines = <<>>
    /\ scanErr = NoErr
    /\ calls = <<>>
    /\ parsed = {}
    /\ exit = "none"
    /\ AuxInit

NextParser ==
    \/ ParseWith
    \/ parseSetLine
    \/ parseSetScanErr
    \/ parseSetEnd
    \/ parseLine
    \/ parseScanErr
    \/ parseEnd

SpecParser == InitParser /\ [][NextParser]_vars

(***************************************************************************)
(* Properties                                                              *)
(***************************************************************************)
Last(s) == s[Len(s)]
Built == pc # "new" /\ err = NoErr
RuleIdx == 1..Len(p.rules)

\* C1: a parser New accepts scans with parse (Mode A) when its Config has a
\* Regex and with parseSet (Mode B) when it has none.
C1_ModeFollowsRegex ==
    (Built /\ fn # "none") =>
        fn = (IF config.Regex # "" THEN "parse" ELSE "parseSet")

\* the Configs C2 says New accepts
UniqueNames(rules) ==
    \A i, j \in 1..Len(rules) : rules[i].Name = rules[j].Name => i = j
ValidConfig(c) ==
    /\ Len(c.Rules) > 0
    /\ UniqueNames(c.Rules)
    /\ \A i \in 1..Len(c.Rules) : ruleNew(c.Rules[i]) = NoErr
    /\ ~CompileErr(c)
    /\ c.Regex # "" \/ c.StartMatch # ""

\* C2: New returns no error for every valid Config with Regex or StartMatch
\* set, and an error for every Config with a repeated rule name or with
\* neither Regex nor StartMatch.
C2_NewAcceptsValid ==
    pc # "new" =>
        /\ ValidConfig(config) => err = NoErr
        /\ (~UniqueNames(config.Rules)
            \/ (config.Regex = "" /\ config.StartMatch = "")) => err # NoErr

StopLine(l) == config.StopMatch # "" /\ Match(config.StopMatch, l)

\* C3: the scan of a parser built by New ends at a line by the stop check if
\* and only if the configured StopMatch matches that line; no rule is applied
\* to that line and no line is read after it.
C3_StopOnlyOnStopMatch ==
    Built =>
        /\ exit = "stop" => StopLine(Last(lines))
        /\ \A i \in 1..Len(lines) :
              StopLine(lines[i]) =>
                  /\ i = Len(lines)
                  /\ exit = "stop"
                  /\ \A r \in RuleIdx : <<i, r>> \notin parsed

\* C4 as stated: in Mode B a line matching StopMatch that is read while the
\* pending Result holds data or errors ends the scan without a callback
\* invocation for the pending Result.
C4_StopDiscardsPending ==
    (Built /\ fn = "parseSet" /\ exit = "stop" /\ StopLine(Last(lines))
        /\ Pending(result)) =>
        (calls = <<>> \/ Last(calls).line # Len(lines))

\* C4, amended: in Mode B, when the stop check ends the scan at a line, the
\* callback is invoked at that line exactly when the pending Result holds data
\* or errors, once, with the pending Result, and no rule is applied to the line.
C4_StopDeliversPending ==
    (Built /\ fn = "parseSet" /\ exit = "stop") =>
        /\ \A r \in RuleIdx : <<Len(lines), r>> \notin parsed
        /\ Pending(result) <=>
              (calls # <<>> /\ Last(calls).line = Len(lines))
        /\ \A i \in 1..Len(calls) :
              calls[i].line = Len(lines) =>
                  i = Len(calls) /\ calls[i].r = result /\ calls[i].site = "final"

C4_Witness ==
    /\ Built /\ fn = "parseSet" /\ exit = "stop" /\ StopLine(Last(lines))
    /\ result.Data # <<>>
    /\ calls # <<>> /\ Last(calls).r = result

\* line i is read while the skip flag C5 describes is true
Skipped(i) ==
    \E k \in 1..i :
        /\ Match(config.SkipMatch, lines[k])
        /\ \A j \in k..i : ~Match(config.ResumeMatch, lines[j])

\* C5: with SkipMatch and ResumeMatch both set, no rule is applied to a line
\* read from a line matching the skip pattern up to the next line matching the
\* resume pattern.
C5_SkippedLinesDropped ==
    (Built /\ config.SkipMatch # "" /\ config.ResumeMatch # "") =>
        \A i \in 1..Len(lines) :
            Skipped(i) => \A r \in RuleIdx : <<i, r>> \notin parsed

\* C6: with SkipMatch and ResumeMatch both set, a first line that matches both
\* (and is no stop line) is not skipped: the skip flag is false after it, the
\* scan goes on and the rules are applied to it.
C6_SkipResumeSameLine ==
    (Built /\ config.SkipMatch # "" /\ config.ResumeMatch # ""
        /\ Len(lines) = 1
        /\ Match(config.SkipMatch, lines[1]) /\ Match(config.ResumeMatch, lines[1])
        /\ ~StopLine(lines[1])) =>
        /\ ~skip
        /\ exit # "stop"
        /\ \E r \in RuleIdx : <<1, r>> \in parsed

ReadFailure == [Data |-> <<>>, Errors |-> <<Err("read")>>]

\* C7: when the line source fails, the scan ends having invoked the callback
\* exactly once with a Result that carries the read error and no data, as its
\* last invocation.
C7_ReadFailureReported ==
    (pc = "done" /\ scanErr # NoErr) =>
        /\ calls # <<>>
        /\ Last(calls).r = ReadFailure
        /\ Cardinality({i \in 1..Len(calls) : calls[i].r = ReadFailure}) = 1

\* C8: a callback invocation that returns false is the last one of the scan:
\* the scan is over, no line is read after the one it was called at, and when
\* it was the delivery at a start line no rule is applied to that line.
C8_FalseStopsScan ==
    \A i \in 1..Len(calls) :
        ~calls[i].ok =>
            /\ i = Len(calls)
            /\ pc = "done"
            /\ Len(lines) <= calls[i].line
            /\ calls[i].site = "flush" =>
                  \A r \in RuleIdx : <<calls[i].line, r>> \notin parsed

C8_Witness ==
    /\ fn = "parse"
    /\ Len(calls) = 2 /\ calls[1].ok /\ ~calls[2].ok
    /\ calls[2].site = "mismatch"
    /\ Len(lines) < MaxLines

\* "name": as a key of the flat object
Key(name) == <<"\"">> \o name \o <<"\"", ":">>
HasKey(data, name) == Contains(data, Key(name))
\* the object's text without its closing brace
Open(data) == SubSeq(data, 1, Len(data) - 1)
IsPrefix(s, u) == Len(s) <= Len(u) /\ SubSeq(u, 1, Len(s)) = s

\* a step of parseSet that takes line l past the blank, stop and skip tests
Processed(l) ==
    /\ pc = "scan" /\ fn = "parseSet" /\ Len(lines') = Len(lines) + 1
    /\ l = Last(lines')
    /\ l.s # "" /\ exit' # "stop" /\ exit' # "cb"

\* C9: in Mode B a rule whose key is in the pending Result is not applied to a
\* later line of the same document and what is stored stays as it is; on a line
\* matching the start pattern the Result is fresh: the first rule is applied to
\* it and its value, when it matches, is stored.
C9_FirstMatchWins ==
    [][\A l \in Lines : Processed(l) =>
          IF ~Match(p.startMatch, l)
          THEN \A r \in RuleIdx :
                  HasKey(result.Data, p.rules[r].Name) =>
                      /\ <<Len(lines'), r>> \notin parsed'
                      /\ IsPrefix(Open(result.Data), result'.Data)
          ELSE LET o == RuleParse(p.rules[1], l) IN
               /\ <<Len(lines'), 1>> \in parsed'
               /\ (o.matched /\ o.err = NoErr) =>
                     IsPrefix(<<"{">> \o Key(p.rules[1].Name) \o o.value,
                              result'.Data)
      ]_vars

\* a field written in one document, matched again with another value later in
\* the document, and written again with that value in the next document
C9_Witness ==
    /\ Built /\ Len(lines) = 3 /\ pc = "scan"
    /\ Match(p.startMatch, lines[1]) /\ lines[1].caps["ra"] = "1"
    /\ ~Match(p.startMatch, lines[2]) /\ lines[2].caps["ra"] = "2"
    /\ Match(p.startMatch, lines[3]) /\ lines[3].caps["ra"] = "1"
    /\ Len(calls) = 1 /\ calls[1].r.Data = <<"{", "\"", "a", "\"", ":", "1", "}">>
    /\ result.Data = <<"{", "\"", "a", "\"", ":", "1", "}">>
    /\ <<2, 1>> \notin parsed /\ <<3, 1>> \in parsed

\* the lines that open a document, and the documents of the input read
Starts == {i \in 1..Len(lines) : lines[i].s # "" /\ Match(p.startMatch, lines[i])}
DocEnd(i) ==
    IF \E j \in Starts : j > i
    THEN (CHOOSE j \in Starts : j > i /\ \A k \in Starts : k > i => j <= k) - 1
    ELSE Len(lines)
Yields(i) ==
    \E j \in i..DocEnd(i), r \in RuleIdx :
        LET o == RuleParse(p.rules[r], lines[j]) IN
        lines[j].s # "" /\ (o.matched \/ o.err # NoErr)
\* the input is a sequence of documents, each with a field or an error
Documents ==
    /\ \A j \in 1..Len(lines) : lines[j].s # "" => \E i \in Starts : i <= j
    /\ \A i \in Starts : Yields(i)
\* the number of documents that begin before line i
Before(i) == Cardinality({j \in Starts : j < i})

\* C10: in Mode B, with a callback that always returns true, an input of N
\* documents that is read to its end gives N invocations: the k-th, for k < N,
\* when the start line of document k+1 is read, the N-th at the end of input,
\* each with fields of its own document; no invocation passes an empty Result.
C10_OneCallPerDocument ==
    /\ \A c \in 1..Len(calls) : calls[c].r # EmptyResult
    /\ (Built /\ pc = "done" /\ exit = "eof" /\ Documents
        /\ \A c \in 1..Len(calls) : calls[c].ok) =>
        /\ Len(calls) = Cardinality(Starts)
        /\ \A c \in 1..Len(calls) :
              /\ IF c < Len(calls)
                 THEN /\ calls[c].site = "flush"
                      /\ calls[c].line \in Starts
                      /\ Before(calls[c].line) = c
                 ELSE calls[c].site = "final" /\ calls[c].line = Len(lines)
              /\ \A r \in RuleIdx :
                    HasKey(calls[c].r.Data, p.rules[r].Name) =>
                        \E i \in Starts, j \in 1..Len(lines) :
                            /\ Before(i) = c - 1
                            /\ i <= j /\ j <= DocEnd(i)
                            /\ RuleParse(p.rules[r], lines[j]).matched
                            /\ RuleParse(p.rules[r], lines[j]).err = NoErr
                            /\ IsPrefix(Key(p.rules[r].Name)
                                           \o RuleParse(p.rules[r], lines[j]).value,
                                        SubSeq(calls[c].r.Data,
                                               CHOOSE x \in 1..Len(calls[c].r.Data) :
                                                  IsPrefix(Key(p.rules[r].Name),
                                                     SubSeq(calls[c].r.Data, x,
                                                            Len(calls[c].r.Data))),
                                               Len(calls[c].r.Data)))

C10_Witness ==
    /\ Built /\ pc = "done" /\ exit = "eof" /\ Documents
    /\ Cardinality(Starts) = 2
    /\ Len(calls) = 2 /\ \A c \in 1..2 : calls[c].ok
    /\ calls[1].site = "flush" /\ calls[2].site = "final"
    /\ calls[1].r # calls[2].r

\* a step of parse that takes line l past the stop and skip tests with the
\* combined pattern matching it
Extracted(l) ==
    /\ pc = "scan" /\ fn = "parse" /\ lines' = Append(lines, l)
    /\ ~StopHit(p, l)
    /\ ~(SkipActive(p) /\ NextSkip(p, l, skip))
    /\ l.subs[p.regex] # <<>>

\* the captures parse hands to the rules: the groups of the leftmost
\* occurrence, or with FindAll the first group of every occurrence
Captures(l) ==
    IF config.FindAll THEN [i \in 1..Len(l.subs[p.regex]) |-> l.subs[p.regex][i][1]]
    ELSE l.subs[p.regex][1]

MismatchResult == [Data |-> <<>>, Errors |-> <<Err("errInvalidParsersNumber")>>]

\* C15: in Mode A a matching line whose capture count differs from the number
\* of rules gives exactly one callback invocation, with a Result that holds
\* the mismatch error and nil data; no rule is applied to the line and the
\* scan goes on when the callback returns true.
C15_MismatchIsErrorOnly ==
    [][\A l \in LinesA :
          (Extracted(l) /\ Len(Captures(l)) # Len(p.rules)) =>
              /\ \E ok \in BOOLEAN :
                    /\ calls' = Append(calls,
                                   Call(MismatchResult, ok, Len(lines'), "mismatch"))
                    /\ ok => pc' = "scan"
              /\ parsed' = parsed
      ]_vars

C15_Witness ==
    /\ fn = "parse" /\ ~config.FindAll /\ Len(lines) = 2 /\ pc = "scan"
    /\ Len(calls) = 2
    /\ calls[1].site = "mismatch" /\ calls[1].line = 1 /\ calls[1].ok
    /\ calls[2].site = "mismatch" /\ calls[2].line = 2

\* the callback invocations made at line i by the loop body of parse
CallsAt(i) == {c \in 1..Len(calls) : calls[c].line = i
                                       /\ calls[c].site \in {"line", "mismatch"}}

WellFormedObject(d) ==
    /\ Len(d) >= 2 /\ d[1] = "{" /\ d[Len(d)] = "}"
    /\ ~Contains(d, <<":", ",">>) /\ ~Contains(d, <<":", "}">>)
    /\ ~Contains(d, <<"{", ",">>) /\ ~Contains(d, <<",", "}">>)

\* C17: the data of every Result handed to the callback is, when not nil, a
\* well-formed flat object in which every key is followed by a value.
C17_DataWellFormed ==
    \A c \in 1..Len(calls) :
        calls[c].r.Data # <<>> => WellFormedObject(calls[c].r.Data)

RuleTypes == {"int", "uint", "float", "number", "string", "bool", "time",
              "duration", "datasize"}

RFoo    == [Name |-> <<"a">>, Type |-> "foo", Regex |-> "ra"]
RFooB   == [Name |-> <<"a", "b">>, Type |-> "foo", Regex |-> "rb"]
RNoBoth == [Name |-> <<>>, Type |-> "foo", Regex |-> "ra"]

ConfigsNew == [FindAll     : {FALSE},
               StartMatch  : {"", "start"},
               StopMatch   : {"", "stop"},
               SkipMatch   : {"", "skip"},
               ResumeMatch : {"", "resume"},
               Regex       : {"", "rx1"},
               Rules       : {<<RA>>, <<RFoo>>, <<RA, RFooB>>, <<RNoName>>,
                              <<RNoType>>, <<RNoBoth>>, <<RA, RB>>}]

InitNew ==
    /\ config \in ConfigsNew
    /\ p = NoParser
    /\ err = NoErr
    /\ pc = "new"
    /\ fn = "none"
    /\ skip = FALSE
    /\ result = EmptyResult
    /\ lines = <<>>
    /\ scanErr = NoErr
    /\ calls = <<>>
    /\ parsed = {}
    /\ exit = "none"
    /\ AuxInit

NextNew == DoNew

SpecNew == InitNew /\ [][NextNew]_vars

\* C18: New returns an error for every configuration with a rule whose name is
\* empty or whose type is none of the Type constants.
C18_NewRejectsBadRule ==
    (pc # "new" /\ \E i \in 1..Len(config.Rules) :
                      \/ config.Rules[i].Name = <<>>
                      \/ config.Rules[i].Type \notin RuleTypes)
        => err # NoErr

(***************************************************************************)
(* parseDataSize.  The text is given by what rexUnit finds in it: whether  *)
(* there is a number, the number, and the unit token after it as written.  *)
(* A value is the quotient the function formats, kept as a reduced         *)
(* fraction; nil is [num |-> 0, den |-> 0].                                *)
(***************************************************************************)
bytE == 1
kb   == bytE * 1000
mb   == kb * 1000
kib  == bytE * 1024
mib  == kib * 1024

\* the keys of dataUnits up to the mega and mebi families
UnitNames == {"", "b", "byte", "k", "kb", "kilo", "kilobyte", "kilobytes",
              "m", "mb", "mega", "megabyte", "megabytes",
              "ki", "kib", "kibibyte", "kibibytes",
              "mi", "mib", "mebibyte", "mebibytes"}

dataUnits(u) ==
    CASE u \in {"", "b", "byte"} -> bytE
      [] u \in {"k", "kb", "kilo", "kilobyte", "kilobytes"} -> kb
      [] u \in {"m", "mb", "mega", "megabyte", "megabytes"} -> mb
      [] u \in {"ki", "kib", "kibibyte", "kibibytes"} -> kib
      [] u \in {"mi", "mib", "mebibyte", "mebibytes"} -> mib

\* strings.ToLower on the spellings the model draws
ToLower(u) ==
    CASE u \in {"MIB", "MiB", "Mib"} -> "mib"
      [] u \in {"KIB", "KiB"} -> "kib"
      [] u = "KB" -> "kb"
      [] u = "B" -> "b"
      [] u = "XX" -> "xx"
      [] OTHER -> u

RECURSIVE Gcd(_, _)
Gcd(a, b) == IF b = 0 THEN a ELSE Gcd(b, a % b)

\* val * unit / unitTo
Quotient(n, d) == LET g == Gcd(n, d) IN [num |-> n \div g, den |-> d \div g]

NilValue == [num |-> 0, den |-> 0]

\* u := r.config.From; if u == "" { u = strings.ToLower(match[2]) }
SrcUnit(rc, s) == IF rc.From = "" THEN ToLower(s.unit) ELSE rc.From

parseDataSize(rc, s) ==
    IF ~s.hasNum
    THEN [called |-> TRUE, value |-> NilValue, err |-> Err("errNoMatch")]
    ELSE IF SrcUnit(rc, s) \notin UnitNames
    THEN [called |-> TRUE, value |-> NilValue, err |-> Err("errInvalidSrcFormat")]
    ELSE IF rc.To \notin UnitNames
    THEN [called |-> TRUE, value |-> NilValue, err |-> Err("errInvalidDstFormat")]
    ELSE [called |-> TRUE,
          value  |-> Quotient(s.num * dataUnits(SrcUnit(rc, s)), dataUnits(rc.To)),
          err    |-> NoErr]

DsUnits == {"", "b", "B", "kb", "KB", "kib", "KIB", "mib", "MIB", "MiB", "xx"}
DsRules == [From : DsUnits, To : DsUnits]
DsTexts == [hasNum : {TRUE}, num : {0, 1, 3}, unit : DsUnits]
               \cup {[hasNum |-> FALSE, num |-> 0, unit |-> ""]}

NoConfig == [FindAll |-> FALSE, StartMatch |-> "", StopMatch |-> "",
             SkipMatch |-> "", ResumeMatch |-> "", Regex |-> "", Rules |-> <<>>]

\* no parser is built and no scan runs
NoScan ==
    /\ config = NoConfig
    /\ p = NoParser
    /\ err = NoErr
    /\ pc = "done"
    /\ fn = "none"
    /\ skip = FALSE
    /\ result = EmptyResult
    /\ lines = <<>>
    /\ scanErr = NoErr
    /\ calls = <<>>
    /\ parsed = {}
    /\ exit = "none"

InitData ==
    /\ NoScan
    /\ offer = NoOffer /\ recv = <<>> /\ closed = 0 /\ ctx = "live" /\ cons = "ready"
    /\ scans = <<>>
    /\ dsRule \in DsRules
    /\ dsText \in DsTexts
    /\ dsValue = NoValue
    /\ jsonBuf = <<>>
    /\ jsonPairs = <<>>

\* r.parseDataSize(s)
DoParseDataSize ==
    /\ ~dsValue.called
    /\ dsValue' = parseDataSize(dsRule, dsText)
    /\ UNCHANGED <<config, p, err, pc, fn, skip, result, lines, scanErr, calls,
                   parsed, exit, offer, recv, closed, ctx, cons, scans, dsRule,
                   dsText, json>>

NextData == DoParseDataSize

SpecData == InitData /\ [][NextData]_vars

\* C19: the source unit is From when From is not empty and else the unit
\* token of the text (byte when there is none); so a rule whose From is the
\* text's unit token returns what the same rule with an empty From returns.
C19_FromAsTrailingUnit ==
    (dsValue.called /\ dsRule.From # "" /\ dsText.hasNum
        /\ dsRule.From = dsText.unit) =>
        dsValue = parseDataSize([dsRule EXCEPT !.From = ""], dsText)

(***************************************************************************)
(* Scans replayed as a function of the parser, the input and the answers   *)
(* of the callback.                                                        *)
(***************************************************************************)
\* var skip bool; var result Result
InitFrame == [pc |-> "scan", skip |-> FALSE, result |-> EmptyResult,
              calls |-> <<>>, parsed |-> {}, exit |-> "none"]

\* one iteration of the loop ParseWith dispatches to
Iter(q, findAll, st, n, line, ok) ==
    IF Dispatch(q) = "parseSet" THEN parseSetIter(q, st, n, line, ok)
    ELSE parseIter(q, findAll, st, n, line, ok)

\* what follows the loop ParseWith dispatches to
AfterLoop(q, st, n, ok, how) ==
    IF Dispatch(q) = "parseSet" THEN SetEndIter(st, n, ok, how) ELSE EndIter(st, how)

\* what the callback returns on its k-th invocation: oks[k], and true after
\* the end of oks
Answer(oks, k) == IF k <= Len(oks) THEN oks[k] ELSE TRUE

\* the loop over the tokens ls from the n-th on
RECURSIVE Replay(_, _, _, _, _, _)
Replay(q, findAll, ls, n, st, oks) ==
    IF n > Len(ls) \/ st.pc = "done" THEN st
    ELSE Replay(q, findAll, ls, n + 1,
                Iter(q, findAll, st, n, ls[n], Answer(oks, Len(st.calls) + 1)),
                oks)

\* ParseWith on the tokens ls of a source that then ends as how says: "eof",
\* "readfail" (Scan returns false on a failed Read) or "ioerr" (Scan returns a
\* last token with scanner.Err() set), with a callback that answers oks
Solo(q, findAll, ls, how, oks) ==
    LET st == Replay(q, findAll, ls, 1, InitFrame, oks)
        ok == Answer(oks, Len(st.calls) + 1)
    IN IF st.pc = "done" THEN st
       ELSE IF how = "ioerr" THEN ScanErrIter(st, Len(ls) + 1, ok)
       ELSE AfterLoop(q, st, Len(ls), ok, how)

\* the Results of a sequence of callback invocations
ResultsOf(cs) == [c \in 1..Len(cs) |-> cs[c].r]

(***************************************************************************)
(* Parse: the scan runs in a goroutine whose callback selects between the  *)
(* send on the unbuffered channel res and ctx.Done(); close(res) follows   *)
(* the return of ParseWith.  pc = "end" when the goroutine has finished.   *)
(***************************************************************************)
MaxChan == 2

ChanParsers == {q \in Parsers : q.skipMatch = NIL /\ q.regex \in {NIL, "rx1"}}

ChanLines(q) ==
    IF q.regex = NIL
    THEN {Line("x", {"start"}, "1", NoMatch, occ1),
          Line("x", {}, NoMatch, "x", occ1),
          Line("x", {"stop"}, "1", NoMatch, occ1)}
    ELSE {Line("x", {"rx1", "rx2"}, NoMatch, NoMatch, occ1),
          Line("x", {"rx1", "rx2"}, "1", NoMatch, occ2),
          Line("x", {"stop"}, "1", NoMatch, occ1)}

InitChan ==
    /\ p \in ChanParsers
    /\ config = [NoConfig EXCEPT !.Rules = p.rules]
    /\ err = NoErr
    /\ pc = "ready"
    /\ fn = "none"
    /\ skip = FALSE
    /\ result = EmptyResult
    /\ lines = <<>>
    /\ scanErr = NoErr
    /\ calls = <<>>
    /\ parsed = {}
    /\ exit = "none"
    /\ AuxInit

\* a goroutine that closes the channel on the normal end of input only
CloseAfterEof(st) == st.pc = "done" /\ st.exit = "eof"

\* close(res) is the statement after p.ParseWith(...)
CloseAfter(st) == st.pc = "done"

\* a send case that makes the callback return false
SendReturnsFalse == FALSE

\* case res <- r: return true
SendReturns == TRUE

\* a ctx.Done() case that makes the callback return true
DoneReturnsTrue == TRUE

\* case <-ctx.Done(): return false
DoneReturns == FALSE

\* the iteration, or the end of the scan, the pending callback belongs to,
\* finished with ok as what the callback returns
After(o, ok) ==
    CASE o.kind = "line"  -> Iter(p, config.FindAll, Frame, Len(lines), o.line, ok)
      [] o.kind = "ioerr" -> ScanErrIter(Frame, Len(lines) + 1, ok)
      [] o.kind = "end"   -> AfterLoop(p, Frame, Len(lines), ok, o.how)

\* the Result the pending callback was called with
Offered(o) == LET cs == After(o, TRUE).calls IN cs[Len(cs)].r

\* the goroutine takes a token; it runs the iteration to its end if that
\* does not call the callback, and else enters the select of the callback
ChanLine ==
    /\ pc = "scan" /\ offer = NoOffer
    /\ Len(lines) < MaxChan
    /\ \E line \in ChanLines(p) :
          LET b == Iter(p, config.FindAll, Frame, Len(lines) + 1, line, TRUE) IN
          /\ lines' = Append(lines, line)
          /\ IF b.calls = calls
             THEN Set(b) /\ offer' = offer
             ELSE /\ offer' = [kind |-> "line", line |-> line, how |-> "none"]
                  /\ UNCHANGED <<pc, skip, result, calls, parsed, exit>>
    /\ UNCHANGED <<config, p, err, fn, scanErr, recv, closed, ctx, cons, scans,
                   dsRule, dsText, dsValue, json>>

\* the goroutine takes the last token of a failed source: the callback is
\* called with the read error
ChanScanErr ==
    /\ pc = "scan" /\ offer = NoOffer
    /\ Len(lines) < MaxChan
    /\ scanErr' = Err("read")
    /\ offer' = [kind |-> "ioerr", line |-> Line("", {}, NoMatch, NoMatch, occ1),
                 how |-> "ioerr"]
    /\ UNCHANGED <<config, p, err, pc, fn, skip, result, lines, calls, parsed, exit,
                   recv, closed, ctx, cons, scans, dsRule, dsText, dsValue, json>>

\* scanner.Scan() returns false: parse returns, parseSet returns or calls the
\* callback with the pending Result
ChanEnd ==
    /\ pc = "scan" /\ offer = NoOffer
    /\ \E e \in {NoErr, Err("read")} :
          LET how == IF e = NoErr THEN "eof" ELSE "readfail"
              b   == AfterLoop(p, Frame, Len(lines), TRUE, how)
          IN /\ scanErr' = e
             /\ IF b.calls = calls
                THEN Set(b) /\ offer' = offer
                ELSE /\ offer' = [kind |-> "end",
                                  line |-> Line("", {}, NoMatch, NoMatch, occ1),
                                  how  |-> how]
                     /\ UNCHANGED <<pc, skip, result, calls, parsed, exit>>
    /\ UNCHANGED <<config, p, err, fn, lines, recv, closed, ctx, cons, scans,
                   dsRule, dsText, dsValue, json>>

\* select takes case res <- r: the consumer receives the Result
ChanSend ==
    /\ offer # NoOffer /\ cons = "ready"
    /\ recv' = Append(recv, Offered(offer))
    /\ Set(After(offer, SendReturns))
    /\ offer' = NoOffer
    /\ UNCHANGED <<config, p, err, fn, lines, scanErr, closed, ctx, cons, scans,
                   dsRule, dsText, dsValue, json>>

\* select takes case <-ctx.Done()
ChanDone ==
    /\ offer # NoOffer /\ ctx = "done"
    /\ Set(After(offer, DoneReturns))
    /\ offer' = NoOffer
    /\ UNCHANGED <<config, p, err, fn, lines, scanErr, recv, closed, ctx, cons,
                   scans, dsRule, dsText, dsValue, json>>

\* close(res), the last statement of the goroutine
ChanClose ==
    /\ CloseAfter(Frame) /\ offer = NoOffer
    /\ closed' = closed + 1
    /\ pc' = "end"
    /\ UNCHANGED <<config, p, err, fn, skip, result, lines, scanErr, calls, parsed,
                   exit, offer, recv, ctx, cons, scans, dsRule, dsText, dsValue, json>>

\* the caller cancels the context
Cancel ==
    /\ ctx = "live" /\ pc # "end"
    /\ ctx' = "done"
    /\ UNCHANGED <<config, p, err, pc, fn, skip, result, lines, scanErr, calls,
                   parsed, exit, offer, recv, closed, cons, scans, dsRule, dsText,
                   dsValue, json>>

\* the caller stops receiving from the channel
ConsumerLeaves ==
    /\ cons = "ready" /\ pc # "end"
    /\ cons' = "gone"
    /\ UNCHANGED <<config, p, err, pc, fn, skip, result, lines, scanErr, calls,
                   parsed, exit, offer, recv, closed, ctx, scans, dsRule, dsText,
                   dsValue, json>>

NextChan ==
    \/ ParseWith
    \/ ChanLine
    \/ ChanScanErr
    \/ ChanEnd
    \/ ChanSend
    \/ ChanDone
    \/ ChanClose
    \/ Cancel
    \/ ConsumerLeaves

\* the goroutine runs while it can; a ready case of the select is taken; and
\* a handoff that nobody receives is met by a cancellation
FairChan ==
    /\ WF_vars(ParseWith)
    /\ WF_vars(ChanLine \/ ChanScanErr \/ ChanEnd)
    /\ WF_vars(ChanSend)
    /\ WF_vars(ChanDone)
    /\ WF_vars(ChanClose)
    /\ WF_vars(Cancel /\ offer # NoOffer /\ cons = "gone")

SpecChan == InitChan /\ [][NextChan]_vars /\ FairChan

\* C11: the channel Parse returns is closed in the end, it is closed once,
\* and no Result is received from it after the close, however the scan ends,
\* when every handoff is met by a receive or a cancellation.
C11_ClosedOnceAfterLast ==
    /\ <>(closed = 1)
    /\ [](closed <= 1)
    /\ [][closed >= 1 => recv' = recv /\ offer' = NoOffer]_vars

C11_Witness ==
    /\ closed = 1 /\ pc = "end" /\ exit = "eof"
    /\ ctx = "live" /\ Len(recv) = 2 /\ recv[2].Data # <<>>

\* C12 as stated: no Result is sent on the channel once the context is
\* cancelled.
C12_NoSendAfterCancel == [][ctx = "done" => recv' = recv]_vars

\* C12, amended: a handoff that ends after the cancellation with no consumer
\* ready sends nothing and ends the scan; a Result sent after the cancellation
\* goes to a consumer that was ready; and once the callback has returned
\* false nothing is sent and no token is taken.
C12_CancelSeenAtHandoff ==
    [][/\ (ctx = "done" /\ cons = "gone" /\ offer # NoOffer /\ offer' = NoOffer) =>
              (recv' = recv /\ pc' = "done" /\ ~calls'[Len(calls')].ok)
       /\ (ctx = "done" /\ recv' # recv) => cons = "ready"
       /\ (Len(calls) > 0 /\ ~calls[Len(calls)].ok) =>
              (recv' = recv /\ lines' = lines /\ calls' = calls /\ offer' = NoOffer)
      ]_vars

C12_Witness ==
    /\ ctx = "done" /\ cons = "gone" /\ pc = "end" /\ exit = "cb"
    /\ Len(lines) < MaxChan
    /\ Len(calls) = 1 /\ ~calls[1].ok /\ recv = <<>>

\* C13: with no cancellation, the Results received from the channel are, in
\* number, order and content, those a callback that always returns true is
\* called with by ParseWith on the same parser and input.
C13_ChannelAsParseWith ==
    (closed = 1 /\ ctx = "live") =>
        recv = ResultsOf(Solo(p, config.FindAll, lines,
                              IF exit = "stop" THEN "eof" ELSE exit, <<>>).calls)

C13_Witness ==
    /\ closed = 1 /\ ctx = "live" /\ exit = "stop"
    /\ Len(recv) = 1 /\ recv[1].Data # <<>>

(***************************************************************************)
(* Two scans of one Parser, interleaved iteration by iteration.  Each has  *)
(* its own source and callback; scans[i] holds the locals of scan i and    *)
(* the tokens it has taken.                                                *)
(***************************************************************************)
MaxTwo == 2

TwoParsers == {q \in Parsers : q.skipMatch # NIL /\ q.stopMatch = NIL
                                  /\ q.regex \in {NIL, "rx1"}}

TwoLines(q) ==
    IF q.regex = NIL
    THEN {Line("x", {"start"}, "1", NoMatch, occ1),
          Line("x", {}, NoMatch, "x", occ1),
          Line("x", {"skip"}, "1", NoMatch, occ1),
          Line("x", {"resume"}, "2", NoMatch, occ1)}
    ELSE {Line("x", {"rx1", "rx2"}, "1", NoMatch, occ2),
          Line("x", {"skip", "rx1", "rx2"}, "1", NoMatch, occ1),
          Line("x", {"resume", "rx1", "rx2"}, "1", NoMatch, occ2)}

InitTwo ==
    /\ p \in TwoParsers
    /\ config = [NoConfig EXCEPT !.Rules = p.rules]
    /\ err = NoErr
    /\ pc = "done"
    /\ fn = "none"
    /\ skip = FALSE
    /\ result = EmptyResult
    /\ lines = <<>>
    /\ scanErr = NoErr
    /\ calls = <<>>
    /\ parsed = {}
    /\ exit = "none"
    /\ offer = NoOffer /\ recv = <<>> /\ closed = 0 /\ ctx = "live" /\ cons = "ready"
    /\ scans = [i \in 1..2 |-> [f |-> InitFrame, lines |-> <<>>]]
    /\ dsRule = [From |-> "", To |-> ""]
    /\ dsText = [hasNum |-> FALSE, num |-> 0, unit |-> ""]
    /\ dsValue = NoValue
    /\ jsonBuf = <<>>
    /\ jsonPairs = <<>>

\* scans that keep the skip flag in one place, that of the first scan
ScanLocalsSharedSkip(i) == [scans[i].f EXCEPT !.skip = scans[1].f.skip]

\* skip and result are variables of the call of parseSet or parse
ScanLocals(i) == scans[i].f

\* scan i takes a token and runs one iteration of its loop
TwoLine ==
    /\ \E i \in 1..2 :
          /\ scans[i].f.pc = "scan"
          /\ Len(scans[i].lines) < MaxTwo
          /\ \E line \in TwoLines(p), ok \in BOOLEAN :
                scans' = [scans EXCEPT
                            ![i] = [f     |-> Iter(p, config.FindAll, ScanLocals(i),
                                                   Len(scans[i].lines) + 1, line, ok),
                                    lines |-> Append(scans[i].lines, line)]]
    /\ UNCHANGED <<config, p, err, pc, fn, skip, result, lines, scanErr, calls,
                   parsed, exit, offer, recv, closed, ctx, cons, dsRule, dsText,
                   dsValue, json>>

\* scan i takes the last token of a failed source
TwoScanErr ==
    /\ \E i \in 1..2 :
          /\ scans[i].f.pc = "scan"
          /\ Len(scans[i].lines) < MaxTwo
          /\ \E ok \in BOOLEAN :
                scans' = [scans EXCEPT
                            ![i].f = ScanErrIter(ScanLocals(i),
                                                 Len(scans[i].lines) + 1, ok)]
    /\ UNCHANGED <<config, p, err, pc, fn, skip, result, lines, scanErr, calls,
                   parsed, exit, offer, recv, closed, ctx, cons, dsRule, dsText,
                   dsValue, json>>

\* scanner.Scan() of scan i returns false
TwoEnd ==
    /\ \E i \in 1..2 :
          /\ scans[i].f.pc = "scan"
          /\ \E how \in {"eof", "readfail"}, ok \in BOOLEAN :
                scans' = [scans EXCEPT
                            ![i].f = AfterLoop(p, ScanLocals(i), Len(scans[i].lines),
                                               ok, how)]
    /\ UNCHANGED <<config, p, err, pc, fn, skip, result, lines, scanErr, calls,
                   parsed, exit, offer, recv, closed, ctx, cons, dsRule, dsText,
                   dsValue, json>>

NextTwo ==
    \/ TwoLine
    \/ TwoScanErr
    \/ TwoEnd

SpecTwo == InitTwo /\ [][NextTwo]_vars

\* the answers the callback of a scan has given
OksOf(cs) == [c \in 1..Len(cs) |-> cs[c].ok]

\* the locals of scan i as ParseWith alone leaves them on the tokens scan i
\* has taken, with the answers its callback has given
Alone(i) ==
    LET s == scans[i] IN
    IF s.f.pc = "done"
    THEN Solo(p, config.FindAll, s.lines,
              IF s.f.exit \in {"eof", "readfail", "ioerr"} THEN s.f.exit ELSE "eof",
              OksOf(s.f.calls))
    ELSE Replay(p, config.FindAll, s.lines, 1, InitFrame, OksOf(s.f.calls))

\* C14: no step of a scan changes the Parser or its Rules, and each of two
\* scans of one Parser, interleaved in any way, has at every moment the skip
\* flag, the pending Result and the callback invocations it has when run
\* alone on its input.
C14_ScansIndependent ==
    /\ [](\A i \in 1..2 : scans[i].f = Alone(i))
    /\ [][p' = p /\ config' = config]_vars

C14_Witness ==
    /\ scans[1].f.pc = "done" /\ scans[2].f.pc = "done"
    /\ scans[1].f.skip /\ ~scans[2].f.skip
    /\ Len(scans[1].lines) = 2 /\ Len(scans[2].lines) = 2
    /\ Len(scans[1].f.calls) = 1 /\ Len(scans[2].f.calls) = 2

\* the error list of a pending Result holds a conversion error of the rule
Failed(res, name) ==
    \E k \in 1..Len(res.Errors) :
        res.Errors[k].kind = "rule" /\ res.Errors[k].rule = name

\* C21: in Mode B a rule whose conversion fails on a line adds its error to
\* the pending Result and writes no key, the rules after it are still applied
\* to the line, and a rule that has failed in the document and then matches
\* and converts on a later line of it writes its field.
C21_FailureLeavesFieldOpen ==
    [][\A l \in Lines : Processed(l) =>
          LET n    == Len(lines')
              base == IF Match(p.startMatch, l) THEN EmptyResult ELSE result
          IN \A r \in RuleIdx :
                LET o == RuleParse(p.rules[r], l) IN
                /\ (<<n, r>> \in parsed' /\ o.err # NoErr) =>
                      /\ Len(result'.Errors) = Len(base.Errors) + 1
                      /\ Failed(result', p.rules[r].Name)
                      /\ ~HasKey(result'.Data, p.rules[r].Name)
                      /\ \A r2 \in RuleIdx :
                            r2 > r => \/ <<n, r2>> \in parsed'
                                      \/ HasKey(base.Data, p.rules[r2].Name)
                /\ (Failed(base, p.rules[r].Name) /\ o.matched /\ o.err = NoErr
                       /\ ~HasKey(base.Data, p.rules[r].Name)) =>
                      HasKey(result'.Data, p.rules[r].Name)
      ]_vars

C23_NoRuleBeforeStart ==
    fn = "parseSet" =>
        \A x \in parsed : \E i \in 1..x[1] : Match(p.startMatch, lines[i])

\* C25: every spelling of a unit of the table, as the unit token of the text,
\* as From or as To, gives what its lower-case spelling gives, and no
\* unknown-unit error.
C25_UnitCaseInsensitive ==
    (dsValue.called /\ dsText.hasNum
        /\ ToLower(dsText.unit) \in UnitNames
        /\ ToLower(dsRule.From) \in UnitNames
        /\ ToLower(dsRule.To) \in UnitNames) =>
        /\ dsValue.err = NoErr
        /\ dsValue = parseDataSize([From |-> ToLower(dsRule.From),
                                    To   |-> ToLower(dsRule.To)],
                                   [dsText EXCEPT !.unit = ToLower(dsText.unit)])

(***************************************************************************)
(* appendJSON alone: a chain of calls, each on the buffer the one before   *)
(* returned, from a nil buffer.                                            *)
(***************************************************************************)
MaxPairs == 3

JsonKeys   == {<<"a">>, <<"a", "b">>}
JsonValues == {<<>>, <<"1">>, <<"\"", "x", "\"">>}

InitJSON ==
    /\ NoScan
    /\ offer = NoOffer /\ recv = <<>> /\ closed = 0 /\ ctx = "live" /\ cons = "ready"
    /\ scans = <<>>
    /\ dsRule = [From |-> "", To |-> ""]
    /\ dsText = [hasNum |-> FALSE, num |-> 0, unit |-> ""]
    /\ dsValue = NoValue
    /\ jsonBuf = <<>>
    /\ jsonPairs = <<>>

\* data = appendJSON(data, key, value)
DoAppendJSON ==
    /\ Len(jsonPairs) < MaxPairs
    /\ \E key \in JsonKeys, value \in JsonValues :
          /\ jsonBuf' = appendJSON(jsonBuf, key, value)
          /\ jsonPairs' = Append(jsonPairs, [key |-> key, value |-> value])
    /\ UNCHANGED <<config, p, err, pc, fn, skip, result, lines, scanErr, calls,
                   parsed, exit, offer, recv, closed, ctx, cons, scans, dsRule,
                   dsText, dsValue>>

NextJSON == DoAppendJSON

SpecJSON == InitJSON /\ [][NextJSON]_vars

\* "k1":v1,...,"kn":vn for the first n pairs
RECURSIVE Members(_, _)
Members(ps, n) ==
    IF n = 0 THEN <<>>
    ELSE Members(ps, n - 1) \o (IF n > 1 THEN <<",">> ELSE <<>>)
            \o <<"\"">> \o ps[n].key \o <<"\"", ":">> \o ps[n].value

\* C24: after n >= 1 appendJSON calls with non-empty values, from a nil
\* buffer, the buffer is {"k1":v1,...,"kn":vn}: the pairs in call order with
\* one comma between two of them, inside one pair of braces.
C24_BufferIsObjectOfPairs ==
    (Len(jsonPairs) >= 1 /\ \A k \in 1..Len(jsonPairs) : jsonPairs[k].value # <<>>) =>
        jsonBuf = <<"{">> \o Members(jsonPairs, Len(jsonPairs)) \o <<"}">>

C24_Witness ==
    /\ Len(jsonPairs) = 3
    /\ jsonPairs[1].key = <<"a", "b">> /\ jsonPairs[2].key = <<"a">>
    /\ \A k \in 1..3 : jsonPairs[k].value # <<>>
    /\ jsonBuf = <<"{", "\"", "a", "b", "\"", ":", "\"", "x", "\"", ",",
                   "\"", "a", "\"", ":", "1", ",",
                   "\"", "a", "\"", ":", "1", "}">>

====
